---- MODULE Spec2Model ----
(***************************************************************************)
(* Model of chat/consumers.py: the ChatConsumer websocket consumer and the *)
(* channel-layer group registry it drives.                                 *)
(*                                                                         *)
(* One ChatConsumer instance exists per websocket connection.  Its four    *)
(* handlers (connect, disconnect, receive, chat_message) are translated    *)
(* as the operators connect(c), disconnect(c), receive(c, text_data) and   *)
(* chat_message(c).  The channel layer (group_add, group_discard,          *)
(* group_send) is the registry of the rooms: a dictionary from group name  *)
(* to the channels of the group, and one mailbox per channel.              *)
(*                                                                         *)
(* Two specifications drive the handlers:                                  *)
(*   Spec       the handlers as the websocket dispatcher calls them:       *)
(*              connect first and once, frames and group events only on an *)
(*              accepted connection; the close signal may arrive at any    *)
(*              time and more than once.                                   *)
(*   SpecCalls  the handlers called in any order: the consumer's code has  *)
(*              no guard of its own, so every call sequence is tried.      *)
(***************************************************************************)
EXTENDS Naturals, Sequences, FiniteSets

\* ------------------------------------------------------------------ bounds

\* how many broadcasts (group_send calls) one behaviour holds
MaxBroadcasts == 1

\* how many completed registry operations (join / leave) one connection makes
MaxOps == 3

\* ------------------------------------------------------------ connections

\* the channel names: one automatically generated unique name per consumer
Conns == {"c1", "c2", "c3"}

\* value of an attribute that has not been assigned yet
None == << >>

\* the URL routes of the three connections, room names being sequences of
\* characters: all in one room, c3 in a room of its own, and c3 with a room
\* name that holds a character no group name may hold
Scopes ==
    { [c \in Conns |-> <<"a">>],
      [c \in Conns |-> IF c = "c3" THEN <<"b">> ELSE <<"a">>],
      [c \in Conns |-> IF c = "c3" THEN <<"a", ";">> ELSE <<"a">>] }

\* the consumers whose handlers SpecCalls calls in any order
CallConns == {"c2", "c3"}

VARIABLES
    scope,            \* scope[c]: room_name of the URL route of connection c
    room_name,        \* self.room_name of consumer c (None until connect)
    room_group_name,  \* self.room_group_name of consumer c (None until connect)
    state,            \* lifecycle of c: "Connecting", "Open", "Closed"
    accepted,         \* accepted[c]: self.accept() has been called
    groups,           \* channel layer: group name -> (channel -> entries)
    mailbox,          \* channel layer: mailbox[c], the events sent to channel c
    delivered,        \* delivered[c]: what self.send() wrote to c's websocket
    raised,           \* raised[c]: exception of c's last handler call, or "none"
    mops,             \* mops[c]: the completed registry operations of c, in order
    broadcasts        \* log of the group_send calls made so far

vars == << scope, room_name, room_group_name, state, accepted, groups,
           mailbox, delivered, raised, mops, broadcasts >>

\* ---------------------------------------------------------------- json

Tok(t, v) == [t |-> t, v |-> v]
LBRACE == Tok("{", "")
RBRACE == Tok("}", "")
COLON == Tok(":", "")
COMMA == Tok(",", "")
Str(s) == Tok("str", s)
Num(s) == Tok("num", s)

\* a JSON text is a sequence of tokens
IsValue(tok) == tok.t \in {"str", "num"}

JsonFail == [exc |-> "JSONDecodeError", kind |-> "none", value |-> << >>]
JsonDict(d) == [exc |-> "none", kind |-> "dict", value |-> d]
JsonScalar(tok) == [exc |-> "none", kind |-> "scalar", value |-> tok]

\* d[k] = v on a Python dict (a later key replaces an earlier one)
DictPut(d, k, v) == [x \in (DOMAIN d) \cup {k} |-> IF x = k THEN v ELSE d[x]]

\* the members of an object from position i on: key ":" value, then "," or "}"
RECURSIVE parse_members(_, _, _)
parse_members(s, i, d) ==
    IF i + 3 > Len(s) THEN JsonFail
    ELSE IF s[i].t # "str" \/ s[i + 1] # COLON \/ ~IsValue(s[i + 2]) THEN JsonFail
    ELSE LET d2 == DictPut(d, s[i].v, s[i + 2]) IN
         IF s[i + 3] = RBRACE
         THEN IF i + 3 = Len(s) THEN JsonDict(d2) ELSE JsonFail
         ELSE IF s[i + 3] = COMMA THEN parse_members(s, i + 4, d2)
         ELSE JsonFail

\* json.loads(text_data)
json_loads(s) ==
    IF Len(s) = 0 THEN JsonFail
    ELSE IF IsValue(s[1])
    THEN IF Len(s) = 1 THEN JsonScalar(s[1]) ELSE JsonFail
    ELSE IF s[1] = LBRACE
    THEN IF Len(s) >= 2 /\ s[2] = RBRACE
         THEN IF Len(s) = 2 THEN JsonDict(<< >>) ELSE JsonFail
         ELSE parse_members(s, 2, << >>)
    ELSE JsonFail

\* faulty getitem: text_data_json.get('message'), a missing key gives a
\* default value in place of KeyError
getitem_default(p, k) ==
    IF p.kind = "dict"
    THEN IF k \in DOMAIN p.value
         THEN [exc |-> "none", value |-> p.value[k]]
         ELSE [exc |-> "none", value |-> Str("")]
    ELSE [exc |-> "TypeError", value |-> Str("")]

\* text_data_json['message'] and event['message']
getitem(p, k) ==
    IF p.kind = "dict"
    THEN IF k \in DOMAIN p.value
         THEN [exc |-> "none", value |-> p.value[k]]
         ELSE [exc |-> "KeyError", value |-> Str("")]
    ELSE [exc |-> "TypeError", value |-> Str("")]

\* faulty chat_message envelope: the whole inbound object is written back
json_dumps_all(message) ==
    << LBRACE, Str("message"), COLON, message, COMMA,
       Str("user"), COLON, Str("bob"), RBRACE >>

\* json.dumps({'message': message})
json_dumps(message) == << LBRACE, Str("message"), COLON, message, RBRACE >>

\* the frames a client sends
TextHi == << LBRACE, Str("message"), COLON, Str("hi"), RBRACE >>
TextYo == << LBRACE, Str("message"), COLON, Str("yo"), COMMA,
             Str("user"), COLON, Str("bob"), RBRACE >>
TextNoMessage == << LBRACE, Str("text"), COLON, Str("hi"), RBRACE >>
TextTruncated == << LBRACE, Str("message"), COLON, Str("hi") >>
TextScalar == << Str("hi") >>
Texts == { TextHi, TextYo, TextNoMessage, TextTruncated }

\* the frames SpecCalls sends
CallTexts == { TextHi, TextScalar }

\* ------------------------------------------------------- channel layer

\* faulty format_group_name: the room name is left out of the group name
format_group_name_fixed(rn) == << "c", "h", "a", "t", "_" >>

\* 'chat_%s' % self.room_name
format_group_name(rn) == << "c", "h", "a", "t", "_" >> \o rn

\* the characters a group name may hold: ASCII alphanumerics, hyphens,
\* periods (and the underscore of the 'chat_' prefix)
GroupNameChars == { "a", "b", "c", "h", "t", "0", "1", "-", ".", "_" }

\* faulty valid_group_name: the characters of the name are not looked at
valid_group_name_any(g) == Len(g) > 0

valid_group_name(g) ==
    Len(g) > 0 /\ \A i \in 1..Len(g) : g[i] \in GroupNameChars

Members(gs, g) == IF g \in DOMAIN gs THEN DOMAIN gs[g] ELSE {}

\* faulty group_add: the channel is also added to every other group
group_add_all(gs, g, ch) ==
    IF ~valid_group_name(g) THEN [exc |-> "TypeError", groups |-> gs]
    ELSE [exc |-> "none",
          groups |-> [x \in (DOMAIN gs) \cup {g} |->
                        [m \in Members(gs, x) \cup {ch} |->
                           IF m = ch THEN 1 ELSE gs[x][m]]]]

\* faulty group_add: a channel that joins again gets a second entry
group_add_append(gs, g, ch) ==
    IF ~valid_group_name(g) THEN [exc |-> "TypeError", groups |-> gs]
    ELSE [exc |-> "none",
          groups |-> [x \in (DOMAIN gs) \cup {g} |->
                        IF x = g
                        THEN [m \in Members(gs, g) \cup {ch} |->
                                IF m # ch THEN gs[g][m]
                                ELSE IF ch \in Members(gs, g) THEN gs[g][ch] + 1
                                ELSE 1]
                        ELSE gs[x]]]

\* group_add(group, channel): joins a group; the group is created when it
\* does not exist, an existing entry of the channel is replaced
group_add(gs, g, ch) ==
    IF ~valid_group_name(g) THEN [exc |-> "TypeError", groups |-> gs]
    ELSE [exc |-> "none",
          groups |-> [x \in (DOMAIN gs) \cup {g} |->
                        IF x = g
                        THEN [m \in Members(gs, g) \cup {ch} |->
                                IF m = ch THEN 1 ELSE gs[g][m]]
                        ELSE gs[x]]]

\* faulty group_discard: the channel stays in the group
group_discard_noop(gs, g, ch) ==
    IF ~valid_group_name(g) THEN [exc |-> "TypeError", groups |-> gs]
    ELSE [exc |-> "none", groups |-> gs]

\* faulty group_discard: a channel that is not in the group is an error
group_discard_strict(gs, g, ch) ==
    IF ~valid_group_name(g) THEN [exc |-> "TypeError", groups |-> gs]
    ELSE IF ch \notin Members(gs, g) THEN [exc |-> "KeyError", groups |-> gs]
    ELSE LET rest == Members(gs, g) \ {ch} IN
         [exc |-> "none",
          groups |-> [x \in (IF rest = {} THEN (DOMAIN gs) \ {g} ELSE DOMAIN gs) |->
                        IF x = g THEN [m \in rest |-> gs[g][m]] ELSE gs[x]]]

\* faulty group_discard: the whole group is removed with the channel
group_discard_group(gs, g, ch) ==
    IF ~valid_group_name(g) THEN [exc |-> "TypeError", groups |-> gs]
    ELSE IF ch \notin Members(gs, g) THEN [exc |-> "none", groups |-> gs]
    ELSE [exc |-> "none", groups |-> [x \in (DOMAIN gs) \ {g} |-> gs[x]]]

\* faulty group_discard: a group left empty stays in the registry
group_discard_keep_empty(gs, g, ch) ==
    IF ~valid_group_name(g) THEN [exc |-> "TypeError", groups |-> gs]
    ELSE IF ch \notin Members(gs, g) THEN [exc |-> "none", groups |-> gs]
    ELSE [exc |-> "none",
          groups |-> [x \in DOMAIN gs |->
                        IF x = g THEN [m \in Members(gs, g) \ {ch} |-> gs[g][m]]
                        ELSE gs[x]]]

\* group_discard(group, channel): leaves a group; a group left empty is
\* removed, a channel that is not in the group is left alone
group_discard(gs, g, ch) ==
    IF ~valid_group_name(g) THEN [exc |-> "TypeError", groups |-> gs]
    ELSE IF ch \notin Members(gs, g) THEN [exc |-> "none", groups |-> gs]
    ELSE LET rest == Members(gs, g) \ {ch} IN
         [exc |-> "none",
          groups |-> [x \in (IF rest = {} THEN (DOMAIN gs) \ {g} ELSE DOMAIN gs) |->
                        IF x = g THEN [m \in rest |-> gs[g][m]] ELSE gs[x]]]

\* n copies of event e appended to queue q
RECURSIVE Put(_, _, _)
Put(q, e, n) == IF n = 0 THEN q ELSE Put(Append(q, e), e, n - 1)

\* faulty group_send: every channel of the group gets the event twice
group_send_twice(gs, mb, g, e) ==
    IF ~valid_group_name(g) THEN [exc |-> "TypeError", mailbox |-> mb]
    ELSE [exc |-> "none",
          mailbox |-> [c \in DOMAIN mb |->
                         IF c \in Members(gs, g) THEN Put(mb[c], e, 2 * gs[g][c])
                         ELSE mb[c]]]

\* faulty group_send: the loop over the channels ends after the first one
group_send_first(gs, mb, g, e) ==
    IF ~valid_group_name(g) THEN [exc |-> "TypeError", mailbox |-> mb]
    ELSE [exc |-> "none",
          mailbox |-> [c \in DOMAIN mb |->
                         IF /\ c \in Members(gs, g)
                            /\ c = (CHOOSE x \in Members(gs, g) : TRUE)
                         THEN Put(mb[c], e, gs[g][c])
                         ELSE mb[c]]]

\* faulty group_send: the event is put in the mailbox of every channel that
\* is in any group
group_send_any_group(gs, mb, g, e) ==
    IF ~valid_group_name(g) THEN [exc |-> "TypeError", mailbox |-> mb]
    ELSE [exc |-> "none",
          mailbox |-> [c \in DOMAIN mb |->
                         IF \E x \in DOMAIN gs : c \in Members(gs, x)
                         THEN Append(mb[c], e)
                         ELSE mb[c]]]

\* group_send(group, event): the event is put in the mailbox of every
\* channel of the group, once per entry of the channel
group_send(gs, mb, g, e) ==
    IF ~valid_group_name(g) THEN [exc |-> "TypeError", mailbox |-> mb]
    ELSE [exc |-> "none",
          mailbox |-> [c \in DOMAIN mb |->
                         IF c \in Members(gs, g) THEN Put(mb[c], e, gs[g][c])
                         ELSE mb[c]]]

\* ------------------------------------------------------------ handlers

\* faulty handling of an exception: every consumer of the process is stopped
Raise_all(c, exc) ==
    /\ raised' = [raised EXCEPT ![c] = exc]
    /\ state' = [x \in Conns |-> "Closed"]

\* an exception leaves the handler: the consumer stops and the server
\* closes the connection
Raise(c, exc) ==
    /\ raised' = [raised EXCEPT ![c] = exc]
    /\ state' = [state EXCEPT ![c] = "Closed"]

Return(c) == raised' = [raised EXCEPT ![c] = "none"]

\* faulty connect: self.accept() is called before the group is joined
connect_accept_first(c) ==
    LET rn == scope[c]
        g == format_group_name(rn)
        r == group_add(groups, g, c)
    IN  /\ Len(mops[c]) < MaxOps
        /\ room_name' = [room_name EXCEPT ![c] = rn]
        /\ room_group_name' = [room_group_name EXCEPT ![c] = g]
        /\ accepted' = [accepted EXCEPT ![c] = TRUE]
        /\ IF r.exc # "none"
           THEN /\ Raise(c, r.exc)
                /\ UNCHANGED << groups, mops >>
           ELSE /\ groups' = r.groups
                /\ state' = [state EXCEPT ![c] = "Open"]
                /\ mops' = [mops EXCEPT ![c] = Append(@, "join")]
                /\ Return(c)
        /\ UNCHANGED << scope, mailbox, delivered, broadcasts >>

\* ChatConsumer.connect
connect(c) ==
    LET rn == scope[c]
        g == format_group_name(rn)
        r == group_add(groups, g, c)
    IN  /\ Len(mops[c]) < MaxOps
        /\ room_name' = [room_name EXCEPT ![c] = rn]
        /\ room_group_name' = [room_group_name EXCEPT ![c] = g]
        /\ IF r.exc # "none"
           THEN /\ Raise(c, r.exc)
                /\ UNCHANGED << groups, accepted, mops >>
           ELSE /\ groups' = r.groups
                /\ accepted' = [accepted EXCEPT ![c] = TRUE]
                /\ state' = [state EXCEPT ![c] = "Open"]
                /\ mops' = [mops EXCEPT ![c] = Append(@, "join")]
                /\ Return(c)
        /\ UNCHANGED << scope, mailbox, delivered, broadcasts >>

\* ChatConsumer.disconnect
disconnect(c) ==
    /\ IF room_group_name[c] = None
       THEN /\ Raise(c, "AttributeError")
            /\ UNCHANGED << groups, mops >>
       ELSE LET r == group_discard(groups, room_group_name[c], c) IN
            IF r.exc # "none"
            THEN /\ Raise(c, r.exc)
                 /\ UNCHANGED << groups, mops >>
            ELSE /\ Len(mops[c]) < MaxOps
                 /\ groups' = r.groups
                 /\ state' = [state EXCEPT ![c] = "Closed"]
                 /\ mops' = [mops EXCEPT ![c] = Append(@, "leave")]
                 /\ Return(c)
    /\ UNCHANGED << scope, room_name, room_group_name, accepted, mailbox,
                    delivered, broadcasts >>

\* the record the log keeps of one group_send call: who sent what to which
\* group, the members of the group and the connections that had left at
\* that time, and the exception the call ended with
Broadcast(c, g, text, exc) ==
    [sender |-> c, group |-> g, text |-> text, exc |-> exc,
     members |-> Members(groups, g),
     left |-> {x \in Conns : mops[x] # << >> /\ mops[x][Len(mops[x])] = "leave"}]

\* ChatConsumer.receive
receive(c, text_data) ==
    LET text_data_json == json_loads(text_data) IN
    /\ IF text_data_json.exc # "none"
       THEN /\ Raise(c, text_data_json.exc)
            /\ UNCHANGED << mailbox, broadcasts >>
       ELSE LET message == getitem(text_data_json, "message") IN
            IF message.exc # "none"
            THEN /\ Raise(c, message.exc)
                 /\ UNCHANGED << mailbox, broadcasts >>
            ELSE IF room_group_name[c] = None
            THEN /\ Raise(c, "AttributeError")
                 /\ UNCHANGED << mailbox, broadcasts >>
            ELSE LET g == room_group_name[c]
                     e == [type |-> "chat_message", message |-> message.value,
                           bid |-> Len(broadcasts) + 1]
                     r == group_send(groups, mailbox, g, e)
                 IN  /\ Len(broadcasts) < MaxBroadcasts
                     /\ mailbox' = r.mailbox
                     /\ broadcasts' = Append(broadcasts, Broadcast(c, g, text_data, r.exc))
                     /\ IF r.exc # "none"
                        THEN Raise(c, r.exc)
                        ELSE Return(c) /\ UNCHANGED state
    /\ UNCHANGED << scope, room_name, room_group_name, accepted, groups,
                    delivered, mops >>

\* faulty chat_message: the event is taken and nothing is written
chat_message_drop(c) ==
    /\ mailbox[c] # << >>
    /\ mailbox' = [mailbox EXCEPT ![c] = Tail(@)]
    /\ Return(c)
    /\ UNCHANGED << scope, room_name, room_group_name, state, accepted, groups,
                    mops, broadcasts, delivered >>

\* faulty chat_message: the text is written to the socket twice
chat_message_send_twice(c) ==
    /\ mailbox[c] # << >>
    /\ LET event == Head(mailbox[c])
           message == event.message
           out == [bid |-> event.bid, text |-> json_dumps(message)]
       IN  /\ delivered' = [delivered EXCEPT ![c] = Append(Append(@, out), out)]
           /\ mailbox' = [mailbox EXCEPT ![c] = Tail(@)]
           /\ Return(c)
    /\ UNCHANGED << scope, room_name, room_group_name, state, accepted, groups,
                    mops, broadcasts >>

\* ChatConsumer.chat_message, called with the first event of c's mailbox
chat_message(c) ==
    /\ mailbox[c] # << >>
    /\ LET event == Head(mailbox[c])
           message == event.message
       IN  /\ delivered' = [delivered EXCEPT ![c] =
                              Append(@, [bid |-> event.bid, text |-> json_dumps(message)])]
           /\ mailbox' = [mailbox EXCEPT ![c] = Tail(@)]
           /\ Return(c)
    /\ UNCHANGED << scope, room_name, room_group_name, state, accepted, groups,
                    mops, broadcasts >>

\* ---------------------------------------------------------- dispatcher

\* websocket.connect: the first event of a connection
WebsocketConnect(c) == state[c] = "Connecting" /\ connect(c)

\* websocket.receive: a frame of an accepted connection
WebsocketReceive(c, text) == state[c] = "Open" /\ receive(c, text)

\* an event of the channel layer, handled by a running consumer
ChannelEvent(c) == state[c] = "Open" /\ chat_message(c)

\* websocket.disconnect: the close signal
WebsocketDisconnect(c) == disconnect(c)

Init ==
    /\ scope \in Scopes
    /\ room_name = [c \in Conns |-> None]
    /\ room_group_name = [c \in Conns |-> None]
    /\ state = [c \in Conns |-> "Connecting"]
    /\ accepted = [c \in Conns |-> FALSE]
    /\ groups = << >>
    /\ mailbox = [c \in Conns |-> << >>]
    /\ delivered = [c \in Conns |-> << >>]
    /\ raised = [c \in Conns |-> "none"]
    /\ mops = [c \in Conns |-> << >>]
    /\ broadcasts = << >>

Next ==
    \E c \in Conns :
        \/ WebsocketConnect(c)
        \/ WebsocketDisconnect(c)
        \/ ChannelEvent(c)
        \/ \E text \in Texts : WebsocketReceive(c, text)

Spec == Init /\ [][Next]_vars

\* the handlers called in any order
CallConnect(c) == connect(c)
CallDisconnect(c) == disconnect(c)
CallReceive(c, text) == receive(c, text)
CallChatMessage(c) == chat_message(c)

NextCalls ==
    \E c \in CallConns :
        \/ CallConnect(c)
        \/ CallDisconnect(c)
        \/ CallChatMessage(c)
        \/ \E text \in CallTexts : CallReceive(c, text)

SpecCalls == Init /\ [][NextCalls]_vars

\* ------------------------------------------------------------ properties

Bids == 1..Len(broadcasts)

\* how many times broadcast b was written to c's websocket
Copies(c, b) == Cardinality({i \in 1..Len(delivered[c]) : delivered[c][i].bid = b})

\* how many events of broadcast b wait in c's mailbox
Pending(c, b) == Cardinality({i \in 1..Len(mailbox[c]) : mailbox[c][i].bid = b})

\* the groups c is a member of
GroupsOf(c) == {g \in DOMAIN groups : c \in Members(groups, g)}

Last(q) == q[Len(q)]

\* the frames that are not a well-formed envelope: one lacks the 'message'
\* field, one does not parse
MalformedTexts == { TextNoMessage, TextTruncated }

\* C1 (as amended): a well-formed message received from a member A of a room
\* with member set M puts exactly one event in the channel of every
\* connection in M, A included, and none in any other; every connection of
\* M that is still Open when it handles the event is delivered the message
\* exactly once, and no connection is delivered it twice.
C1_FanOutOnce ==
    \A b \in Bids : \A c \in Conns :
        /\ Copies(c, b) + Pending(c, b) = IF c \in broadcasts[b].members THEN 1 ELSE 0
        /\ (c \in broadcasts[b].members /\ state[c] = "Open" /\ Pending(c, b) = 0)
              => Copies(c, b) = 1

\* C1 witness: a broadcast in a room of three members, the sender among
\* them, has reached each of the three once.
C1_Witness ==
    \E b \in Bids :
        /\ broadcasts[b].members = Conns
        /\ broadcasts[b].sender \in broadcasts[b].members
        /\ \A c \in Conns : Copies(c, b) = 1

\* C1 as stated: once nothing of the broadcast is left to handle on an open
\* connection, every connection in M has been delivered the message exactly
\* once and no other connection has.
C1_Original ==
    \A b \in Bids :
        (\A x \in Conns : state[x] = "Open" => Pending(x, b) = 0)
           => \A c \in Conns :
                 Copies(c, b) = IF c \in broadcasts[b].members THEN 1 ELSE 0

\* C2: a broadcast that starts after a connection's disconnect was processed
\* delivers nothing to that connection, completes without error, and still
\* reaches the remaining members of the room.
C2_NoDeliveryAfterClose ==
    \A b \in Bids :
        /\ \A c \in broadcasts[b].left :
              /\ c \notin broadcasts[b].members
              /\ Copies(c, b) = 0
              /\ Pending(c, b) = 0
        /\ (broadcasts[b].left # {}) =>
              /\ broadcasts[b].exc = "none"
              /\ \A c \in broadcasts[b].members : Copies(c, b) + Pending(c, b) = 1

\* C2 witness: A and B joined one room, B left, then A sent: A alone was
\* delivered the message.
C2_Witness ==
    \E b \in Bids : \E B \in broadcasts[b].left :
        /\ room_group_name[B] = broadcasts[b].group
        /\ broadcasts[b].members = {broadcasts[b].sender}
        /\ Copies(broadcasts[b].sender, b) = 1
        /\ Copies(B, b) = 0

\* C3 as stated: a Closed connection is a member of no room.
C3_ClosedIsMemberOfNoRoom ==
    \A c \in Conns : state[c] = "Closed" => GroupsOf(c) = {}

\* C4: whatever is delivered to, or waits for, a connection was broadcast in
\* its own room, to a member set that held the connection.
C4_OwnRoomOnly ==
    \A c \in Conns :
        /\ \A i \in 1..Len(delivered[c]) :
              LET b == broadcasts[delivered[c][i].bid] IN
              /\ c \in b.members
              /\ room_name[b.sender] = room_name[c]
        /\ \A i \in 1..Len(mailbox[c]) :
              LET b == broadcasts[mailbox[c][i].bid] IN
              /\ c \in b.members
              /\ room_name[b.sender] = room_name[c]

\* C4 witness: a message was delivered in one room while an open member of
\* another room got nothing.
C4_Witness ==
    \E b \in Bids : \E c, d \in Conns :
        /\ Copies(c, b) = 1
        /\ state[d] = "Open"
        /\ room_name[d] # room_name[c]
        /\ GroupsOf(d) # {}
        /\ delivered[d] = << >> /\ mailbox[d] = << >>

\* C5: an accepted connection that is still open is a member of its room;
\* a connection is accepted only after its join completed, and never when
\* the join fails.
C5_AcceptAfterJoin ==
    \A c \in Conns :
        /\ (accepted[c] /\ state[c] = "Open") => GroupsOf(c) = {room_group_name[c]}
        /\ accepted[c] => (mops[c] # << >> /\ mops[c][1] = "join")
        /\ ~valid_group_name(format_group_name(scope[c])) => ~accepted[c]

\* C5 witness: the join of one connection failed and it was not accepted,
\* while another connection joined and was accepted.
C5_Witness ==
    \E c, d \in Conns :
        /\ room_group_name[c] # None /\ raised[c] = "TypeError"
        /\ state[c] = "Closed" /\ ~accepted[c] /\ mops[c] = << >>
        /\ accepted[d] /\ state[d] = "Open"

\* a step that handles a malformed frame of c raises at c, changes no other
\* connection, no mailbox, no websocket and logs no group_send
C6_MalformedStep ==
    \A c \in Conns : \A text \in MalformedTexts :
        WebsocketReceive(c, text) =>
            /\ raised'[c] \in {"JSONDecodeError", "KeyError"}
            /\ \A d \in Conns \ {c} : raised'[d] = raised[d] /\ state'[d] = state[d]
            /\ mailbox' = mailbox
            /\ delivered' = delivered
            /\ broadcasts' = broadcasts

\* C6: handling a frame that is not a well-formed envelope raises an error
\* at the connection that sent it and nowhere else, sends no event to any
\* channel and writes nothing to any websocket; no malformed frame is ever
\* broadcast.
C6_MalformedIsLocal ==
    /\ [][C6_MalformedStep]_vars
    /\ [](\A b \in Bids : broadcasts[b].text \notin MalformedTexts)

\* C6 witness: a member of a room got a malformed frame; the other member
\* of the room is open and has received nothing.
C6_Witness ==
    \E c, d \in Conns :
        /\ c # d
        /\ raised[c] \in {"JSONDecodeError", "KeyError"}
        /\ accepted[c]
        /\ state[d] = "Open" /\ room_group_name[d] = room_group_name[c]
        /\ mailbox[d] = << >> /\ delivered[d] = << >>

\* C7: when a member B of a broadcast is gone before it handled the event,
\* the broadcast has completed without raising and every other member that
\* is open has the message or has it waiting.
C7_MemberFailureIsLocal ==
    \A b \in Bids : \A B \in broadcasts[b].members :
        (state[B] = "Closed" /\ Copies(B, b) = 0) =>
            /\ broadcasts[b].exc = "none"
            /\ \A c \in broadcasts[b].members \ {B} :
                  state[c] = "Open" => Copies(c, b) + Pending(c, b) = 1

\* C7 witness: A sent to a room of A, B and C; B closed with the event
\* unhandled; A and C were delivered the message and A saw no error.
C7_Witness ==
    \E b \in Bids : \E B \in broadcasts[b].members :
        /\ broadcasts[b].members = Conns
        /\ B # broadcasts[b].sender
        /\ state[B] = "Closed" /\ Copies(B, b) = 0 /\ Pending(B, b) = 1
        /\ \A c \in Conns \ {B} : state[c] = "Open" /\ Copies(c, b) = 1
        /\ raised[broadcasts[b].sender] = "none"

\* a step never takes a connection out of Closed
C8_ClosedIsFinal == \A c \in Conns : state[c] = "Closed" => state'[c] = "Closed"

\* a disconnect of a connection whose last registry operation is a leave
C8_SecondDisconnect ==
    \A c \in Conns :
        (mops[c] # << >> /\ Last(mops[c]) = "leave" /\ WebsocketDisconnect(c)) =>
            /\ raised'[c] = "none"
            /\ groups' = groups
            /\ state'[c] = "Closed"

C9_AtMostOneRoom == \A c \in Conns : Cardinality(GroupsOf(c)) <= 1

\* C9 witness: two rooms exist, each with its own member.
C9_Witness ==
    \E c, d \in Conns :
        /\ Cardinality(DOMAIN groups) = 2
        /\ Cardinality(GroupsOf(c)) = 1 /\ Cardinality(GroupsOf(d)) = 1
        /\ GroupsOf(c) # GroupsOf(d)

Ops(c) == {mops[c][i] : i \in 1..Len(mops[c])}

\* a room name with a character outside the safe set of group names
UnsafeRoomName(rn) == \E i \in 1..Len(rn) : rn[i] \notin GroupNameChars

\* a disconnect of a connection that never joined raises nothing and adds
\* no group to the registry
C11_LeaveStep ==
    \A c \in Conns :
        ("join" \notin Ops(c) /\ CallDisconnect(c)) =>
            /\ raised'[c] = "none"
            /\ DOMAIN groups' \subseteq DOMAIN groups

\* C11 as stated: a leave by a connection that never joined (disconnect with
\* no completed connect, or on a room with no members) never raises and
\* never creates a room entry in the registry.
C11_LeaveNeverJoined == [][C11_LeaveStep]_vars

\* C12: a connection whose room name holds a character outside the safe set
\* is rejected: no group of that name is ever in the registry, the
\* connection is a member of no group and it is never accepted.
C12_UnsafeRoomRejected ==
    \A c \in Conns :
        UnsafeRoomName(scope[c]) =>
            /\ format_group_name(scope[c]) \notin DOMAIN groups
            /\ GroupsOf(c) = {}
            /\ ~accepted[c]
            /\ state[c] # "Open"

\* C12 witness: a connect with an unsafe room name has run and failed,
\* while the registry holds the room of another connection.
C12_Witness ==
    \E c, d \in Conns :
        /\ UnsafeRoomName(scope[c])
        /\ room_name[c] = scope[c] /\ raised[c] = "TypeError"
        /\ state[c] = "Closed"
        /\ GroupsOf(d) # {}

\* a step in which a group_send is made and completes is made for an Open
\* connection
C13_SendStep ==
    (Len(broadcasts') > Len(broadcasts) /\ Last(broadcasts').exc = "none")
        => state[Last(broadcasts').sender] = "Open"

\* C13 as stated: no group_send is ever issued on behalf of a connection
\* that has not completed connect or that has already been closed.
C13_SendOnlyWhenOpen == [][C13_SendStep]_vars

\* the connections that completed a join of group g, and those among them
\* that completed a leave afterwards
Joined(g) == {c \in Conns : room_group_name[c] = g /\ "join" \in Ops(c)}
Left(g) == {c \in Joined(g) : Last(mops[c]) = "leave"}

\* the names of the groups the connections ask for
GroupNames == {format_group_name(scope[c]) : c \in Conns}

Recipients(b) == {c \in Conns : Copies(c, b) + Pending(c, b) > 0}

\* the recipient set of a broadcast is fixed by the step that makes it, as
\* the members of the room in the state the step starts from, and no later
\* step changes it
C15_SnapshotStep ==
    \A b \in 1..MaxBroadcasts :
        /\ (b \in Bids /\ broadcasts[b].exc = "none")
              => (Recipients(b))' = Recipients(b)
        /\ (b \notin Bids /\ Len(broadcasts') = b /\ broadcasts'[b].exc = "none")
              => (Recipients(b))' = Members(groups, broadcasts'[b].group)

FairSpec == Spec /\ \A c \in Conns : WF_vars(ChannelEvent(c))

\* C16: every well-formed message received from an Open connection is
\* eventually delivered, under fair scheduling, to every connection that was
\* a member of the room at the broadcast's lookup and stays open.
C16_EventuallyDelivered ==
    \A c \in Conns : \A b \in 1..MaxBroadcasts :
        (b \in Bids /\ broadcasts[b].exc = "none" /\ c \in broadcasts[b].members)
            ~> (Copies(c, b) >= 1 \/ state[c] # "Open")

\* C16 witness: a member other than the sender, still Open, was delivered
\* the broadcast of a well-formed message.
C16_Witness ==
    \E b \in Bids : \E c \in broadcasts[b].members :
        /\ broadcasts[b].exc = "none"
        /\ broadcasts[b].text \in {TextHi, TextYo}
        /\ c # broadcasts[b].sender
        /\ state[c] = "Open"
        /\ Copies(c, b) = 1
        /\ mailbox[c] = << >>

\* the 'message' strings of the well-formed frames
MessageOf(text) == IF text = TextHi THEN Str("hi") ELSE Str("yo")

\* the outbound envelope for a message string: the one field 'message'
EnvelopeOf(m) == << LBRACE, Str("message"), COLON, m, RBRACE >>

\* C17: the text delivered to each member is an envelope with the single
\* field 'message' whose value is exactly the 'message' string of the
\* sender's inbound envelope; no other field of the inbound envelope is
\* forwarded.
C17_EnvelopeOnlyMessage ==
    \A c \in Conns : \A i \in 1..Len(delivered[c]) :
        LET d == delivered[c][i] IN
        /\ d.bid \in Bids
        /\ broadcasts[d.bid].text \in {TextHi, TextYo}
        /\ d.text = EnvelopeOf(MessageOf(broadcasts[d.bid].text))
        /\ Len(d.text) = 5

\* C17 witness: an inbound envelope with a second field was broadcast and a
\* member other than the sender was delivered the envelope without it.
C17_Witness ==
    \E b \in Bids : \E c \in Conns :
        /\ broadcasts[b].text = TextYo
        /\ Len(TextYo) > 5
        /\ c # broadcasts[b].sender
        /\ \E i \in 1..Len(delivered[c]) :
              delivered[c][i] = [bid |-> b, text |-> EnvelopeOf(Str("yo"))]

C19_ReceiveStep ==
    \A c \in Conns : \A text \in Texts :
        WebsocketReceive(c, text) =>
            /\ groups' = groups
            /\ \A d \in Conns \ {c} :
                  /\ state'[d] = state[d]
                  /\ raised'[d] = raised[d]
                  /\ accepted'[d] = accepted[d]
                  /\ room_group_name'[d] = room_group_name[d]
                  /\ delivered'[d] = delivered[d]

\* C19: handling an inbound message, well-formed or malformed, leaves the
\* membership of every room unchanged and does not change the state of any
\* other connection.
C19_ReceiveFrame == [][C19_ReceiveStep]_vars

\* C19 witness: in a room of three one connection sent a well-formed frame,
\* one sent a malformed frame and was stopped, and the room still has its
\* three members and the third connection is Open.
C19_Witness ==
    \E c, d, e \in Conns :
        /\ c # d /\ d # e /\ c # e
        /\ \E b \in Bids : broadcasts[b].sender = c /\ broadcasts[b].exc = "none"
        /\ raised[d] \in {"JSONDecodeError", "KeyError"}
        /\ state[e] = "Open" /\ raised[e] = "none"
        /\ \E g \in DOMAIN groups : Members(groups, g) = Conns

\* the socket sends made for broadcast b, over all connections, and the
\* events of b that still wait in a mailbox
Sends(b) ==
    UNION {{<<c, i>> : i \in {j \in 1..Len(delivered[c]) : delivered[c][j].bid = b}}
              : c \in Conns}
Waiting(b) ==
    UNION {{<<c, i>> : i \in {j \in 1..Len(mailbox[c]) : mailbox[c][j].bid = b}}
              : c \in Conns}

\* a well-formed frame makes one group_send and no socket send; handling one
\* group event makes one send on the handling connection's socket, no send
\* elsewhere, and no group_send
C20_FanOutStep ==
    \A c \in Conns :
        /\ (\E text \in {TextHi, TextYo} : WebsocketReceive(c, text)) =>
              /\ Len(broadcasts') = Len(broadcasts) + 1
              /\ delivered' = delivered
        /\ ChannelEvent(c) =>
              /\ Len(delivered'[c]) = Len(delivered[c]) + 1
              /\ \A d \in Conns \ {c} :
                    delivered'[d] = delivered[d] /\ mailbox'[d] = mailbox[d]
              /\ Len(mailbox'[c]) = Len(mailbox[c]) - 1
              /\ broadcasts' = broadcasts

\* the sends made for a broadcast and the events of it still waiting add up
\* to the members it was handed to, and each send went to another connection
C20_FanOutTotal ==
    \A b \in Bids :
        broadcasts[b].exc = "none" =>
            /\ Cardinality(Sends(b)) + Cardinality(Waiting(b))
                  = Cardinality(broadcasts[b].members)
            /\ Cardinality(Sends(b))
                  = Cardinality({c \in Conns : Copies(c, b) >= 1})

\* C20: fan-out does not amplify: each well-formed inbound message causes
\* exactly one group broadcast, handling a delivered group event causes
\* exactly one send on the receiving connection's own socket and no further
\* broadcast, so the socket sends caused by one inbound message are as many
\* as the recipients of that broadcast.
C20_NoAmplification == [][C20_FanOutStep]_vars /\ []C20_FanOutTotal

\* C20 witness: a broadcast in a room of two was handled by both members:
\* two socket sends in all, nothing waiting, and the connection of the other
\* room received nothing.
C20_Witness ==
    \E b \in Bids :
        /\ Cardinality(broadcasts[b].members) = 2
        /\ Cardinality(Sends(b)) = 2
        /\ Waiting(b) = {}
        /\ \E c \in Conns \ broadcasts[b].members :
              state[c] = "Open" /\ delivered[c] = << >> /\ mailbox[c] = << >>

====
